---------------------------- MODULE Spec2Model ----------------------------
(***************************************************************************)
(* A model of src/wsapistructs.go: the binary codec of factom Entry and    *)
(* Chain objects, and the JSON-RPC dispatcher of the wallet's wsapi.       *)
(*                                                                         *)
(* Four specifications share the variables:                                *)
(*   SpecEntry  Entry.MarshalBinary applied to bounded Entries             *)
(*   SpecChain  Chain.GenerateID applied to bounded Chains                 *)
(*   Spec       handleV2 serving one request after another                 *)
(*   SpecConc   handleV2 serving requests concurrently                     *)
(***************************************************************************)
EXTENDS Integers, Sequences, FiniteSets, TLC

VARIABLES
    entry,       \* the Entry e that MarshalBinary is called on
    buf,         \* the []byte MarshalBinary returned
    marshalled,  \* whether MarshalBinary has returned
    chain,       \* the Chain c that GenerateID is called on
    chain0,      \* c as it was constructed
    ret,         \* the string the last GenerateID returned
    generated,   \* the number of GenerateID calls made on c
    wallet,      \* the wallet fctWallet points to
    busy,        \* whether a request has been served and its exchange is open
    body,        \* the body of that request
    world,       \* what the world outside the handler decided for that request
    out,         \* what handleV2 sent in answer to it, in order
    calls,       \* the calls on the wallet and of GetRate made for it
    procs        \* the requests handleV2 is serving at the same time

entryVars == <<entry, buf, marshalled>>
chainVars == <<chain, chain0, ret, generated>>
rpcVars == <<wallet, busy, body, world, out, calls, procs>>
vars == <<entry, buf, marshalled, chain, chain0, ret, generated,
          wallet, busy, body, world, out, calls, procs>>

-----------------------------------------------------------------------------
(* Bytes and fixed-width integers                                          *)

\* The number of values of a Go byte / uint8.
ByteRange == 256

\* The width in bytes of the uint32 written before each ExtID.
LenWidth == 4

\* byte(n), uint8(n): the conversion keeps the low eight bits.
Uint8(n) == n % ByteRange

RECURSIVE Pow(_, _)
Pow(b, k) == IF k = 0 THEN 1 ELSE b * Pow(b, k - 1)

\* binary.Write(&buf, binary.BigEndian, uint32(n)): the four low-order bytes
\* of n, most significant first.
BigEndianUint32(n) ==
    [i \in 1..LenWidth |-> (n \div Pow(ByteRange, LenWidth - i)) % ByteRange]

\* n copies of x.
Rep(x, n) == [i \in 1..n |-> x]

-----------------------------------------------------------------------------
(* Entry                                                                   *)

\* The concatenation, in order, of the sequences s[lo], ..., s[hi] (halving the
\* range keeps the evaluation shallow on lists of hundreds of elements).
RECURSIVE ConcatRange(_, _, _)
ConcatRange(s, lo, hi) ==
    IF lo > hi THEN <<>>
    ELSE IF lo = hi THEN s[lo]
    ELSE LET mid == (lo + hi) \div 2
         IN ConcatRange(s, lo, mid) \o ConcatRange(s, mid + 1, hi)

\* The loop over e.ExtIDs of MarshalBinary: for each ExtID its uint32 length,
\* then its bytes.
WriteExtIDs(ids) ==
    ConcatRange([i \in 1..Len(ids) |-> BigEndianUint32(Len(ids[i])) \o ids[i]],
                1, Len(ids))

\* A plausible slip: the length prefix of an ExtID written as one byte.
MarshalBinaryShortLen(e) ==
    <<Uint8(Len(e.ChainID))>> \o e.ChainID
        \o <<Uint8(Len(e.ExtIDs))>>
        \o ConcatRange([i \in 1..Len(e.ExtIDs) |->
                            <<Uint8(Len(e.ExtIDs[i]))>> \o e.ExtIDs[i]],
                       1, Len(e.ExtIDs))
        \o e.Data

\* A plausible slip: Data written before the ExtIDs.
MarshalBinaryDataFirst(e) ==
    <<Uint8(Len(e.ChainID))>> \o e.ChainID
        \o e.Data
        \o <<Uint8(Len(e.ExtIDs))>> \o WriteExtIDs(e.ExtIDs)

\* Entry.MarshalBinary.
MarshalBinary(e) ==
    <<Uint8(Len(e.ChainID))>> \o e.ChainID
        \o <<Uint8(Len(e.ExtIDs))>> \o WriteExtIDs(e.ExtIDs)
        \o e.Data

-----------------------------------------------------------------------------
(* The Entries MarshalBinary is applied to                                 *)

\* The longest list of ExtIDs that is enumerated in full.
MaxExtIDs == 2

RECURSIVE SeqsUpTo(_, _)
SeqsUpTo(S, n) ==
    IF n = 0 THEN {<<>>}
    ELSE LET shorter == SeqsUpTo(S, n - 1)
         IN shorter \cup {Append(s, x) : s \in {t \in shorter : Len(t) = n - 1}, x \in S}

\* ChainIDs: empty, short, at the one-byte limit, and past it.
ChainIDPool ==
    {<<>>, <<1>>, <<1, 2>>,
     Rep(7, ByteRange - 1), Rep(7, ByteRange), Rep(7, ByteRange + 2)}

\* ExtIDs: empty, short, one that reads like a length prefix, and one longer
\* than a byte can count.
ExtIDPool == {<<>>, <<65, 66>>, <<0, 0, 0, 1>>, Rep(9, ByteRange + 2)}

\* Lists of ExtIDs: every short list, one at the one-byte limit, two past it.
ExtIDsPool ==
    SeqsUpTo(ExtIDPool, MaxExtIDs)
        \cup {Rep(<<65>>, ByteRange - 1), Rep(<<65>>, ByteRange), Rep(<<>>, ByteRange + 1)}

\* Data: empty, short, and one that reads like a length-prefixed ExtID.
DataPool == {<<>>, <<67>>, <<0, 0, 0, 2, 65, 66>>}

Entries == [ChainID : ChainIDPool, ExtIDs : ExtIDsPool, Data : DataPool]

\* No Entry is being encoded.
EntryIdle ==
    /\ entry = [ChainID |-> <<>>, ExtIDs |-> <<>>, Data |-> <<>>]
    /\ buf = <<>>
    /\ marshalled = FALSE

\* No wallet is being served.
RPCIdle ==
    /\ wallet = <<>>
    /\ busy = FALSE
    /\ body = <<>>
    /\ world = <<>>
    /\ out = <<>>
    /\ calls = <<>>
    /\ procs = <<>>

\* No Chain is in use.
ChainIdle ==
    /\ chain = [ChainID |-> <<>>, Name |-> <<>>, FirstEntry |-> <<>>]
    /\ chain0 = chain
    /\ ret = <<>>
    /\ generated = 0

InitEntry ==
    /\ entry \in Entries
    /\ buf = <<>>
    /\ marshalled = FALSE
    /\ ChainIdle
    /\ RPCIdle

\* A call of e.MarshalBinary().
DoMarshalBinary ==
    /\ ~marshalled
    /\ buf' = MarshalBinary(entry)
    /\ marshalled' = TRUE
    /\ UNCHANGED entry
    /\ UNCHANGED chainVars
    /\ UNCHANGED rpcVars

NextEntry == DoMarshalBinary

SpecEntry == InitEntry /\ [][NextEntry]_vars

-----------------------------------------------------------------------------
(* The layout of section 4.2 and its inverse                               *)

\* The largest value of a one-byte length or count field.
OneByteMax == ByteRange - 1

\* The limits the encoding requires of an Entry.
WithinLimits(e) == Len(e.ChainID) <= OneByteMax /\ Len(e.ExtIDs) <= OneByteMax

\* A length as four bytes, most significant first.
FourBytes(n) == <<n \div 16777216, (n \div 65536) % 256, (n \div 256) % 256, n % 256>>

\* The layout as section 4.2 states it.
Layout(e) ==
    <<Len(e.ChainID)>> \o e.ChainID \o <<Len(e.ExtIDs)>>
        \o ConcatRange([i \in 1..Len(e.ExtIDs) |->
                            FourBytes(Len(e.ExtIDs[i])) \o e.ExtIDs[i]],
                       1, Len(e.ExtIDs))
        \o e.Data

\* Reads n length-prefixed ExtIDs of b from position pos on: whether b holds
\* them, the ExtIDs, and the position after them.
RECURSIVE ReadExtIDs(_, _, _)
ReadExtIDs(b, pos, n) ==
    IF n = 0 THEN [ok |-> TRUE, ids |-> <<>>, pos |-> pos]
    ELSE IF n = 1 THEN
        IF pos + LenWidth - 1 > Len(b) \/ b[pos] # 0
        THEN [ok |-> FALSE, ids |-> <<>>, pos |-> pos]
        ELSE LET l == b[pos + 1] * 65536 + b[pos + 2] * 256 + b[pos + 3]
                 from == pos + LenWidth
             IN IF from + l - 1 > Len(b)
                THEN [ok |-> FALSE, ids |-> <<>>, pos |-> pos]
                ELSE [ok |-> TRUE, ids |-> <<SubSeq(b, from, from + l - 1)>>,
                      pos |-> from + l]
    ELSE LET left == ReadExtIDs(b, pos, n \div 2)
         IN IF ~left.ok THEN left
            ELSE LET right == ReadExtIDs(b, left.pos, n - n \div 2)
                 IN [ok |-> right.ok, ids |-> left.ids \o right.ids, pos |-> right.pos]

Malformed == [ok |-> FALSE, ChainID |-> <<>>, ExtIDs |-> <<>>, Data |-> <<>>]

\* The inverse of the layout: one byte of ChainID length, the ChainID, one byte
\* of ExtID count, the length-prefixed ExtIDs, and the remainder as Data.  (A
\* length whose first byte is not zero is past the end of every buffer here.)
DecodeEntry(b) ==
    IF Len(b) < 1 \/ Len(b) < b[1] + 2 THEN Malformed
    ELSE LET n == b[1]
             read == ReadExtIDs(b, n + 3, b[n + 2])
         IN IF ~read.ok THEN Malformed
            ELSE [ok |-> TRUE,
                  ChainID |-> SubSeq(b, 2, n + 1),
                  ExtIDs |-> read.ids,
                  Data |-> SubSeq(b, read.pos, Len(b))]

\* The Entry of the spec's literal example and its encoding,
\* 02 01 02 01 00000002 41 42 43.
ExampleEntry == [ChainID |-> <<1, 2>>, ExtIDs |-> <<<<65, 66>>>>, Data |-> <<67>>]
ExampleBytes == <<2, 1, 2, 1, 0, 0, 0, 2, 65, 66, 67>>

\* The Entries without a component of hundreds of bytes.
ShortEntries ==
    {e \in Entries : /\ Len(e.ChainID) <= 2
                     /\ Len(e.ExtIDs) <= MaxExtIDs + 1
                     /\ \A i \in 1..Len(e.ExtIDs) : Len(e.ExtIDs[i]) <= LenWidth}

\* C1: for an Entry within the one-byte limits, MarshalBinary returns exactly
\* the layout of section 4.2 (ChainID length byte, ChainID, ExtID count byte,
\* each ExtID behind its 4-byte big-endian length, then Data), and the literal
\* example encodes to 02 01 02 01 00 00 00 02 41 42 43.
C1_MarshalLayout ==
    (marshalled /\ WithinLimits(entry)) =>
        /\ buf = Layout(entry)
        /\ entry = ExampleEntry => buf = ExampleBytes

\* MarshalBinary has encoded the literal example.
C1_Witness == marshalled /\ entry = ExampleEntry /\ buf = ExampleBytes

\* C2: for an Entry within the limits, decoding what MarshalBinary returned by
\* the inverse of the layout recovers ChainID, ExtIDs and Data, and no other
\* Entry within the limits has the same encoding.
C2_RoundTrip ==
    (marshalled /\ WithinLimits(entry)) =>
        /\ DecodeEntry(buf) =
               [ok |-> TRUE, ChainID |-> entry.ChainID,
                ExtIDs |-> entry.ExtIDs, Data |-> entry.Data]
        /\ \A e2 \in ShortEntries :
               (WithinLimits(e2) /\ MarshalBinary(e2) = buf) => e2 = entry

\* An Entry with two ExtIDs, one of them longer than a byte can count, and Data
\* has been encoded and decodes to itself.
C2_Witness ==
    /\ marshalled
    /\ WithinLimits(entry)
    /\ Len(entry.ExtIDs) = 2
    /\ \E i \in 1..2 : Len(entry.ExtIDs[i]) > OneByteMax
    /\ entry.Data # <<>>
    /\ DecodeEntry(buf).ok
    /\ DecodeEntry(buf).ExtIDs = entry.ExtIDs

\* C3: MarshalBinary never emits, for an Entry past the one-byte limits, an
\* encoding whose length or count byte holds the value reduced modulo 256.
C3_NeverTruncates ==
    (marshalled /\ ~WithinLimits(entry)) =>
        /\ ~(Len(entry.ChainID) > OneByteMax
                /\ buf[1] = Len(entry.ChainID) % ByteRange)
        /\ ~(Len(entry.ExtIDs) > OneByteMax
                /\ buf[Len(entry.ChainID) + 2] = Len(entry.ExtIDs) % ByteRange)

-----------------------------------------------------------------------------
(* Chain                                                                   *)

\* The length in bytes of a SHA-256 digest.
DigestLen == 32

\* sha(v): the SHA-256 digest of v.  The digest is DigestLen bytes, each one
\* determined by the input and its position and by nothing else, so that two
\* inputs have the same digest only if they are equal.
sha(v) == [i \in 1..DigestLen |-> [sha |-> v, at |-> i]]

\* hex.EncodeToString(bs): two lowercase hex digits for each byte, the one of
\* the high four bits first.
EncodeToString(bs) ==
    [k \in 1..(2 * Len(bs)) |->
        [digit |-> IF k % 2 = 1 THEN "high" ELSE "low", of |-> bs[(k + 1) \div 2]]]

\* The inner loop of GenerateID: b = append(b, w) for each w of ws, in order.
AppendEach(b, ws) == b \o ConcatRange([i \in 1..Len(ws) |-> <<ws[i]>>], 1, Len(ws))

\* The outer loop of GenerateID over c.Name.
RECURSIVE HashSegments(_, _)
HashSegments(b, name) ==
    IF name = <<>> THEN b
    ELSE HashSegments(AppendEach(b, sha(Head(name))), Tail(name))

\* A plausible slip: the segments hashed together instead of one by one.
GenerateIDFlat(c) ==
    LET id == sha(AppendEach(<<>>, ConcatRange(c.Name, 1, Len(c.Name))))
    IN [c |-> [c EXCEPT !.ChainID = id], ret |-> EncodeToString(id)]

\* Chain.GenerateID: the Chain after the call and the string returned.
GenerateID(c) ==
    LET b == HashSegments(<<>>, c.Name)
        id == sha(b)
    IN [c |-> [c EXCEPT !.ChainID = id], ret |-> EncodeToString(id)]

\* The longest Chain name, in segments.
MaxName == 2

\* The most GenerateID calls made on one Chain.
MaxGenerate == 2

SegmentPool == {<<>>, <<65>>, <<65, 66>>}

NamePool == SeqsUpTo(SegmentPool, MaxName)

\* What ChainID holds before the first call: nothing, or the ID of another name.
StaleIDPool == {<<>>, sha(<<>>), sha(sha(<<66>>))}

Chains ==
    [ChainID : StaleIDPool, Name : NamePool, FirstEntry : {<<>>, <<ExampleEntry>>}]

InitChain ==
    /\ chain \in Chains
    /\ chain0 = chain
    /\ ret = <<>>
    /\ generated = 0
    /\ EntryIdle
    /\ RPCIdle

\* A call of c.GenerateID().
DoGenerateID ==
    /\ generated < MaxGenerate
    /\ chain' = GenerateID(chain).c
    /\ ret' = GenerateID(chain).ret
    /\ generated' = generated + 1
    /\ UNCHANGED chain0
    /\ UNCHANGED entryVars
    /\ UNCHANGED rpcVars

NextChain == DoGenerateID

SpecChain == InitChain /\ [][NextChain]_vars

\* The derivation of section 4.3: SHA-256 of the concatenation, in Name order,
\* of the SHA-256 digests of the segments.
DeriveID(name) ==
    sha(ConcatRange([i \in 1..Len(name) |-> sha(name[i])], 1, Len(name)))

\* The name with segments i and j exchanged.
Swap(name, i, j) ==
    [k \in 1..Len(name) |-> IF k = i THEN name[j] ELSE IF k = j THEN name[i] ELSE name[k]]

\* C4: after GenerateID, ChainID is the derivation of section 4.3 from Name
\* whatever ChainID held before, the string returned is the hex of ChainID,
\* Name and FirstEntry are as constructed, and exchanging two different
\* segments of Name gives another ChainID.
C4_GenerateID ==
    generated > 0 =>
        /\ chain.ChainID = DeriveID(chain.Name)
        /\ Len(ret) = 2 * DigestLen
        /\ \A i \in 1..DigestLen :
               /\ ret[2 * i - 1] = [digit |-> "high", of |-> chain.ChainID[i]]
               /\ ret[2 * i] = [digit |-> "low", of |-> chain.ChainID[i]]
        /\ chain.Name = chain0.Name
        /\ chain.FirstEntry = chain0.FirstEntry
        /\ \A i, j \in 1..Len(chain.Name) :
               chain.Name[i] # chain.Name[j] =>
                   GenerateID([chain EXCEPT !.Name = Swap(chain.Name, i, j)]).c.ChainID
                       # chain.ChainID

\* GenerateID has been called twice on a Chain of two different segments that
\* held a stale ChainID.
C4_Witness ==
    /\ generated = 2
    /\ Len(chain.Name) = 2
    /\ chain.Name[1] # chain.Name[2]
    /\ chain0.ChainID # <<>>
    /\ chain0.ChainID # chain.ChainID
    /\ chain.FirstEntry # <<>>

-----------------------------------------------------------------------------
(* JSON values                                                             *)

\* A JSON value: its type t, and the string s, the number n, the members o
\* (by key) or the elements a that a value of that type holds.
NoMembers == [k \in {} |-> 0]
JNull == [t |-> "null", s |-> "", n |-> 0, o |-> NoMembers, a |-> <<>>]
JStr(str) == [t |-> "string", s |-> str, n |-> 0, o |-> NoMembers, a |-> <<>>]
JNum(num) == [t |-> "number", s |-> "", n |-> num, o |-> NoMembers, a |-> <<>>]
JObj(members) == [t |-> "object", s |-> "", n |-> 0, o |-> members, a |-> <<>>]
JArr(elems) == [t |-> "array", s |-> "", n |-> 0, o |-> NoMembers, a |-> elems]

\* Whether object v has a member named key.
HasKey(v, key) == key \in DOMAIN v.o

-----------------------------------------------------------------------------
(* mapToObject: json.Marshal of the params, then json.Unmarshal into the   *)
(* handler's request struct                                                *)

\* json.Unmarshal into a string field: a JSON string is stored, null leaves
\* the field as it is, anything else is an UnmarshalTypeError.
DecodeString(v, was) ==
    IF v.t = "string" THEN [ok |-> TRUE, val |-> v.s]
    ELSE IF v.t = "null" THEN [ok |-> TRUE, val |-> was]
    ELSE [ok |-> FALSE, val |-> was]

\* json.Unmarshal into a uint64 field: a number that is not negative is
\* stored, null leaves the field, anything else is an UnmarshalTypeError.
DecodeUint64(v, was) ==
    IF v.t = "number" /\ v.n >= 0 THEN [ok |-> TRUE, val |-> v.n]
    ELSE IF v.t = "null" THEN [ok |-> TRUE, val |-> was]
    ELSE [ok |-> FALSE, val |-> was]

\* json.Unmarshal of member key of object v into a string field: a key the
\* object does not have leaves the field at its zero value.
StringField(v, key) ==
    IF HasKey(v, key) THEN DecodeString(v.o[key], "") ELSE [ok |-> TRUE, val |-> ""]

Uint64Field(v, key) ==
    IF HasKey(v, key) THEN DecodeUint64(v.o[key], 0) ELSE [ok |-> TRUE, val |-> 0]

\* json.Unmarshal into the element struct {secret string} of importRequest.
DecodeSecret(v) ==
    IF v.t = "object" THEN StringField(v, "secret")
    ELSE IF v.t = "null" THEN [ok |-> TRUE, val |-> ""]
    ELSE [ok |-> FALSE, val |-> ""]

\* json.Unmarshal into the field Addresses []struct{Secret string}.
SecretsField(v) ==
    IF ~HasKey(v, "addresses") \/ v.o["addresses"].t = "null"
    THEN [ok |-> TRUE, val |-> <<>>]
    ELSE IF v.o["addresses"].t # "array" THEN [ok |-> FALSE, val |-> <<>>]
    ELSE LET elems == v.o["addresses"].a
         IN [ok |-> \A i \in 1..Len(elems) : DecodeSecret(elems[i]).ok,
             val |-> [i \in 1..Len(elems) |-> DecodeSecret(elems[i]).val]]

\* The request structs, as one record: a handler reads the fields of its own.
ZeroRequest == [Name |-> "", Address |-> "", Amount |-> 0, Secrets |-> <<>>]

\* A plausible slip: a member the struct has no field for is an error.
mapToObjectStrict(source, fields) ==
    IF source.t # "object" THEN [ok |-> FALSE, req |-> ZeroRequest]
    ELSE LET name == StringField(source, "name")
             address == StringField(source, "address")
             amount == Uint64Field(source, "amount")
             secrets == SecretsField(source)
         IN [ok |-> /\ DOMAIN source.o = fields
                    /\ name.ok /\ address.ok /\ amount.ok /\ secrets.ok,
             req |-> [Name |-> name.val, Address |-> address.val,
                      Amount |-> amount.val, Secrets |-> secrets.val]]

\* mapToObject(source, dst) for a dst struct with the JSON fields `fields`:
\* whether it returned nil, and dst afterwards.  null decodes into any struct
\* and leaves it zero; an object decodes member by member, a member without a
\* field of that name is skipped; any other JSON value is an error.
mapToObject(source, fields) ==
    IF source.t = "null" THEN [ok |-> TRUE, req |-> ZeroRequest]
    ELSE IF source.t # "object" THEN [ok |-> FALSE, req |-> ZeroRequest]
    ELSE LET name == IF "name" \in fields THEN StringField(source, "name")
                     ELSE [ok |-> TRUE, val |-> ""]
             address == IF "address" \in fields THEN StringField(source, "address")
                        ELSE [ok |-> TRUE, val |-> ""]
             amount == IF "amount" \in fields THEN Uint64Field(source, "amount")
                       ELSE [ok |-> TRUE, val |-> 0]
             secrets == IF "addresses" \in fields THEN SecretsField(source)
                        ELSE [ok |-> TRUE, val |-> <<>>]
         IN [ok |-> name.ok /\ address.ok /\ amount.ok /\ secrets.ok,
             req |-> [Name |-> name.val, Address |-> address.val,
                      Amount |-> amount.val, Secrets |-> secrets.val]]

\* The JSON fields of the request structs.
addressRequest == {"address"}
transactionRequest == {"name"}
transactionValueRequest == {"name", "address", "amount"}
transactionAddressRequest == {"name", "address"}
importRequest == {"addresses"}

-----------------------------------------------------------------------------
(* Errors                                                                  *)

\* A *factom.JSONError: its kind and the data it carries; NoError is nil.
NoError == [code |-> "", data |-> ""]
newInvalidRequestError == [code |-> "InvalidRequest", data |-> ""]
newMethodNotFoundError == [code |-> "MethodNotFound", data |-> ""]
newInvalidParamsError == [code |-> "InvalidParams", data |-> ""]
newCustomInternalError(cause) == [code |-> "InternalError", data |-> cause]

-----------------------------------------------------------------------------
(* Addresses                                                               *)

\* The address strings of the model, by kind.
FactoidPubs == {"FA1", "FA2", "FA7", "FA8", "FA9"}
FactoidSecs == {"Fs0", "Fs1", "Fs2", "Fs7", "Fs8", "Fs9"}
ECPubs == {"EC1", "EC7", "EC8", "EC9"}
ECSecs == {"Es1", "Es7", "Es8", "Es9"}

\* factom.AddressStringType.
AddressStringType(str) ==
    IF str \in FactoidPubs THEN "FactoidPub"
    ELSE IF str \in FactoidSecs THEN "FactoidSec"
    ELSE IF str \in ECPubs THEN "ECPub"
    ELSE IF str \in ECSecs THEN "ECSec"
    ELSE "InvalidAddress"

\* An address: its public and its secret string.
Addr(pub, sec) == [pub |-> pub, sec |-> sec]
NoAddr == Addr("", "")

\* The public string of the key a secret string holds.
PubOf(sec) ==
    CASE sec = "Fs1" -> "FA1" [] sec = "Fs2" -> "FA2" [] sec = "Es1" -> "EC1"
      [] sec = "Fs7" -> "FA7" [] sec = "Fs8" -> "FA8" [] sec = "Fs9" -> "FA9"
      [] sec = "Es7" -> "EC7" [] sec = "Es8" -> "EC8" [] sec = "Es9" -> "EC9"
      [] OTHER -> ""

\* factom.GetFactoidAddress, factom.GetECAddress: the address of a secret
\* string, or an error when no key can be derived from it.
GetAddressOfSecret(sec) ==
    IF PubOf(sec) = "" THEN [err |-> "invalid key", addr |-> NoAddr]
    ELSE [err |-> "", addr |-> Addr(PubOf(sec), sec)]

\* mkAddressResponse.
mkAddressResponse(a) == JObj([public |-> JStr(a.pub), secret |-> JStr(a.sec)])

-----------------------------------------------------------------------------
(* The wallet behind fctWallet                                             *)

\* The most addresses of one kind the wallet generates.
MaxGen == 1

\* The names of transaction drafts.
TxNames == {"t1", "t2"}

\* A draft: whether it exists, the amounts of its inputs, outputs and
\* entry-credit outputs by address, and whether it is signed as it stands.
NoTx == [live |-> FALSE, ins |-> {}, outs |-> {}, ecs |-> {}, signed |-> FALSE]
NewTx == [live |-> TRUE, ins |-> {}, outs |-> {}, ecs |-> {}, signed |-> FALSE]

\* Whether wallet w holds a draft of that name.
Live(w, name) == name \in TxNames /\ w.txs[name].live

\* The amounts S with the amount of address a set to v.
SetAmount(S, a, v) == {x \in S : x.a # a} \cup {[a |-> a, v |-> v]}

HasAddress(S, a) == \E x \in S : x.a = a

AmountOf(S, a) == (CHOOSE x \in S : x.a = a).v

RECURSIVE Total(_)
Total(S) == IF S = {} THEN 0 ELSE LET x == CHOOSE y \in S : TRUE
                                   IN x.v + Total(S \ {x})

\* The fee of a draft at a rate: the rate times the draft's size.
CalculateFee(tx, rate) ==
    rate * (1 + Cardinality(tx.ins) + Cardinality(tx.outs) + Cardinality(tx.ecs))

\* The elements of a set in some fixed order.
RECURSIVE SetToSeq(_)
SetToSeq(S) == IF S = {} THEN <<>> ELSE LET x == CHOOSE y \in S : TRUE
                                        IN <<x>> \o SetToSeq(S \ {x})

\* The addresses the wallet generates, in order.
GeneratedFCT == <<Addr("FA7", "Fs7"), Addr("FA8", "Fs8"), Addr("FA9", "Fs9")>>
GeneratedEC == <<Addr("EC7", "Es7"), Addr("EC8", "Es8"), Addr("EC9", "Es9")>>

\* What a call returns: an error string ("" is nil), addresses, a string, a
\* JSON value, and the wallet after the call.
Returned(w) == [err |-> "", addrs |-> <<>>, text |-> "", tx |-> JNull, w |-> w]
Failed(w, msg) == [err |-> msg, addrs |-> <<>>, text |-> "", tx |-> JNull, w |-> w]

\* The wallet w with draft name replaced by tx.
WithTx(w, name, tx) == [w EXCEPT !.txs[name] = tx]

GetECAddress(w, a) ==
    IF \E x \in w.ec : x.pub = a
    THEN [Returned(w) EXCEPT !.addrs = <<CHOOSE x \in w.ec : x.pub = a>>]
    ELSE Failed(w, "not found")

GetFCTAddress(w, a) ==
    IF \E x \in w.fct : x.pub = a
    THEN [Returned(w) EXCEPT !.addrs = <<CHOOSE x \in w.fct : x.pub = a>>]
    ELSE Failed(w, "not found")

GetAllAddresses(w) ==
    [Returned(w) EXCEPT !.addrs = SetToSeq(w.fct) \o SetToSeq(w.ec)]

GenerateFCTAddress(w) ==
    LET a == GeneratedFCT[w.nfct + 1]
    IN [Returned([w EXCEPT !.fct = @ \cup {a}, !.nfct = @ + 1]) EXCEPT !.addrs = <<a>>]

GenerateECAddress(w) ==
    LET a == GeneratedEC[w.nec + 1]
    IN [Returned([w EXCEPT !.ec = @ \cup {a}, !.nec = @ + 1]) EXCEPT !.addrs = <<a>>]

PutFCTAddress(w, a) == [Returned([w EXCEPT !.fct = @ \cup {a}]) EXCEPT !.addrs = <<a>>]

PutECAddress(w, a) == [Returned([w EXCEPT !.ec = @ \cup {a}]) EXCEPT !.addrs = <<a>>]

GetSeed(w) == [Returned(w) EXCEPT !.text = w.seed]

NewTransaction(w, name) ==
    IF name \notin TxNames THEN Failed(w, "invalid name")
    ELSE IF w.txs[name].live THEN Failed(w, "transaction exists")
    ELSE Returned(WithTx(w, name, NewTx))

DeleteTransaction(w, name) ==
    IF ~Live(w, name) THEN Failed(w, "no such transaction")
    ELSE Returned(WithTx(w, name, NoTx))

\* The draft tx changed: a change leaves it unsigned.
Changed(tx) == [tx EXCEPT !.signed = FALSE]

AddInput(w, name, address, amount) ==
    IF ~Live(w, name) THEN Failed(w, "no such transaction")
    ELSE IF ~\E x \in w.fct : x.pub = address THEN Failed(w, "no such address")
    ELSE Returned(WithTx(w, name,
             Changed([w.txs[name] EXCEPT !.ins = SetAmount(@, address, amount)])))

AddOutput(w, name, address, amount) ==
    IF ~Live(w, name) THEN Failed(w, "no such transaction")
    ELSE IF AddressStringType(address) # "FactoidPub" THEN Failed(w, "invalid address")
    ELSE Returned(WithTx(w, name,
             Changed([w.txs[name] EXCEPT !.outs = SetAmount(@, address, amount)])))

AddECOutput(w, name, address, amount) ==
    IF ~Live(w, name) THEN Failed(w, "no such transaction")
    ELSE IF AddressStringType(address) # "ECPub" THEN Failed(w, "invalid address")
    ELSE Returned(WithTx(w, name,
             Changed([w.txs[name] EXCEPT !.ecs = SetAmount(@, address, amount)])))

\* Whether the inputs of a draft pay exactly for its outputs.
Balanced(tx) == Total(tx.ins) = Total(tx.outs) + Total(tx.ecs)

AddFee(w, name, address, rate) ==
    IF ~Live(w, name) THEN Failed(w, "no such transaction")
    ELSE LET tx == w.txs[name]
         IN IF ~Balanced(tx) THEN Failed(w, "inputs and outputs do not add up")
            ELSE IF ~HasAddress(tx.ins, address) THEN Failed(w, "not an input")
            ELSE Returned(WithTx(w, name,
                     Changed([tx EXCEPT !.ins =
                         SetAmount(@, address,
                                   AmountOf(@, address) + CalculateFee(tx, rate))])))

SubFee(w, name, address, rate) ==
    IF ~Live(w, name) THEN Failed(w, "no such transaction")
    ELSE LET tx == w.txs[name]
         IN IF ~Balanced(tx) THEN Failed(w, "inputs and outputs do not add up")
            ELSE IF ~HasAddress(tx.outs, address) THEN Failed(w, "not an output")
            ELSE IF AmountOf(tx.outs, address) < CalculateFee(tx, rate)
                 THEN Failed(w, "output smaller than the fee")
            ELSE Returned(WithTx(w, name,
                     Changed([tx EXCEPT !.outs =
                         SetAmount(@, address,
                                   AmountOf(@, address) - CalculateFee(tx, rate))])))

SignTransaction(w, name) ==
    IF ~Live(w, name) THEN Failed(w, "no such transaction")
    ELSE Returned(WithTx(w, name, [w.txs[name] EXCEPT !.signed = TRUE]))

ComposeTransaction(w, name) ==
    IF ~Live(w, name) THEN Failed(w, "no such transaction")
    ELSE LET tx == w.txs[name]
         IN IF ~tx.signed THEN Failed(w, "not signed")
            ELSE [Returned(w) EXCEPT
                     !.tx = JObj([transaction |-> JStr(name),
                                  inputs |-> JNum(Total(tx.ins)),
                                  outputs |-> JNum(Total(tx.outs) + Total(tx.ecs))])]

-----------------------------------------------------------------------------
(* The calls a handler makes                                               *)

\* A call on the wallet, or of factom.GetRate: the operation, its string
\* arguments and its number argument.
Call(op, s1, s2, n) == [op |-> op, s1 |-> s1, s2 |-> s2, n |-> n]

\* What the world outside the handler decides for one request: whether
\* factom.GetRate fails and the rate it returns, and which call on the wallet's
\* address database, if any, fails (0: none).
Env(rateErr, rate, failAt) == [rateErr |-> rateErr, rate |-> rate, failAt |-> failAt]

\* The calls that read or write the wallet's address database.
DatabaseOps ==
    {"GetECAddress", "GetFCTAddress", "GetAllAddresses", "GenerateFCTAddress",
     "GenerateECAddress", "PutFCTAddress", "PutECAddress", "GetSeed"}

\* The k-th call of a request, made on wallet w.
Invoke(w, c, env, k) ==
    IF c.op \in DatabaseOps /\ env.failAt = k THEN Failed(w, "database error")
    ELSE CASE c.op = "GetRate" ->
                  IF env.rateErr THEN Failed(w, "no rate") ELSE Returned(w)
           [] c.op = "GetECAddress" -> GetECAddress(w, c.s1)
           [] c.op = "GetFCTAddress" -> GetFCTAddress(w, c.s1)
           [] c.op = "GetAllAddresses" -> GetAllAddresses(w)
           [] c.op = "GenerateFCTAddress" -> GenerateFCTAddress(w)
           [] c.op = "GenerateECAddress" -> GenerateECAddress(w)
           [] c.op = "PutFCTAddress" -> PutFCTAddress(w, Addr(c.s1, c.s2))
           [] c.op = "PutECAddress" -> PutECAddress(w, Addr(c.s1, c.s2))
           [] c.op = "GetSeed" -> GetSeed(w)
           [] c.op = "NewTransaction" -> NewTransaction(w, c.s1)
           [] c.op = "DeleteTransaction" -> DeleteTransaction(w, c.s1)
           [] c.op = "AddInput" -> AddInput(w, c.s1, c.s2, c.n)
           [] c.op = "AddOutput" -> AddOutput(w, c.s1, c.s2, c.n)
           [] c.op = "AddECOutput" -> AddECOutput(w, c.s1, c.s2, c.n)
           [] c.op = "AddFee" -> AddFee(w, c.s1, c.s2, c.n)
           [] c.op = "SubFee" -> SubFee(w, c.s1, c.s2, c.n)
           [] c.op = "SignTransaction" -> SignTransaction(w, c.s1)
           [] c.op = "ComposeTransaction" -> ComposeTransaction(w, c.s1)

\* A handler's course: the calls it makes in order, each one's error ending
\* the handler with an InternalError; the error it returns after the calls,
\* if any; and the result it builds from what the calls returned.
Do(steps, result) == [steps |-> steps, err |-> NoError, result |-> result]
Fail(err) == [steps |-> <<>>, err |-> err, result |-> "none"]
DoThenFail(steps, err) == [steps |-> steps, err |-> err, result |-> "none"]

\* The addresses the calls returned, in order.
RECURSIVE AllAddrs(_)
AllAddrs(rets) == IF rets = <<>> THEN <<>> ELSE Head(rets).addrs \o AllAddrs(Tail(rets))

\* The Addresses of a multiAddressResponse: nil until the first append.
AddressResponses(addrs) ==
    IF addrs = <<>> THEN JNull
    ELSE JArr([i \in 1..Len(addrs) |-> mkAddressResponse(addrs[i])])

\* The resp a handler returns, from what its calls returned.
BuildResult(result, rets) ==
    CASE result = "success" -> JStr("success")
      [] result = "address" -> mkAddressResponse(rets[Len(rets)].addrs[1])
      [] result = "addresses" -> JObj([addresses |-> AddressResponses(AllAddrs(rets))])
      [] result = "backup" ->
             JObj([seed |-> JStr(rets[1].text),
                   addresses |-> AddressResponses(AllAddrs(rets))])
      [] result = "transaction" -> rets[Len(rets)].tx
      [] OTHER -> JNull

\* What a handler returns once its calls are made: (resp, nil) or (nil, error).
Conclude(script, rets) ==
    IF script.err # NoError THEN [err |-> script.err, resp |-> JNull]
    ELSE [err |-> NoError, resp |-> BuildResult(script.result, rets)]

\* The calls of a handler from the k-th on, on wallet w, after calls that
\* returned rets: what the handler returns, the wallet afterwards, and the
\* calls made.
RECURSIVE RunFrom(_, _, _, _, _)
RECURSIVE AfterCall(_, _, _, _, _)

\* The handler returned what `returned` holds, on wallet w, after making calls.
Ended(returned, w, made) ==
    [err |-> returned.err, resp |-> returned.resp, w |-> w, calls |-> made]

RunFrom(script, k, w, rets, env) ==
    IF k > Len(script.steps) THEN Ended(Conclude(script, rets), w, script.steps)
    ELSE AfterCall(script, k, rets, env, Invoke(w, script.steps[k], env, k))

\* The handler after its k-th call returned r: an error of the call ends the
\* handler with an InternalError that carries it.
AfterCall(script, k, rets, env, r) ==
    IF r.err # ""
    THEN [err |-> newCustomInternalError(r.err), resp |-> JNull,
          w |-> r.w, calls |-> SubSeq(script.steps, 1, k)]
    ELSE RunFrom(script, k + 1, r.w, Append(rets, r), env)

Run(script, w, env) == RunFrom(script, 1, w, <<>>, env)

-----------------------------------------------------------------------------
(* The handlers                                                            *)

handleAddress(params) ==
    LET b == mapToObject(params, addressRequest)
    IN IF ~b.ok THEN Fail(newInvalidParamsError)
       ELSE CASE AddressStringType(b.req.Address) = "ECPub" ->
                     Do(<<Call("GetECAddress", b.req.Address, "", 0)>>, "address")
              [] AddressStringType(b.req.Address) = "FactoidPub" ->
                     Do(<<Call("GetFCTAddress", b.req.Address, "", 0)>>, "address")
              [] OTHER -> Fail(newCustomInternalError("Invalid address type"))

handleAllAddresses(params) ==
    Do(<<Call("GetAllAddresses", "", "", 0)>>, "addresses")

handleGenerateFactoidAddress(params) ==
    Do(<<Call("GenerateFCTAddress", "", "", 0)>>, "address")

handleGenerateECAddress(params) ==
    Do(<<Call("GenerateECAddress", "", "", 0)>>, "address")

\* The loop of handleImportAddresses over req.Addresses: the Put calls it
\* makes, and the error that ends it before the list does, if one does.
RECURSIVE ImportEach(_)
ImportEach(secrets) ==
    IF secrets = <<>> THEN [steps |-> <<>>, err |-> NoError]
    ELSE LET v == Head(secrets)
             kind == AddressStringType(v)
             key == GetAddressOfSecret(v)
             rest == ImportEach(Tail(secrets))
         IN IF kind \notin {"FactoidSec", "ECSec"}
            THEN [steps |-> <<>>,
                  err |-> newCustomInternalError("address could not be imported")]
            ELSE IF key.err # ""
            THEN [steps |-> <<>>, err |-> newCustomInternalError(key.err)]
            ELSE [steps |-> <<Call(IF kind = "FactoidSec" THEN "PutFCTAddress"
                                   ELSE "PutECAddress", key.addr.pub, key.addr.sec, 0)>>
                                \o rest.steps,
                  err |-> rest.err]

\* A plausible slip: every secret is checked before the first one is stored.
handleImportAddressesCheckFirst(params) ==
    LET b == mapToObject(params, importRequest)
        each == ImportEach(b.req.Secrets)
    IN IF ~b.ok THEN Fail(newInvalidParamsError)
       ELSE IF each.err # NoError THEN Fail(each.err)
       ELSE Do(each.steps, "addresses")

handleImportAddresses(params) ==
    LET b == mapToObject(params, importRequest)
        each == ImportEach(b.req.Secrets)
    IN IF ~b.ok THEN Fail(newInvalidParamsError)
       ELSE IF each.err # NoError THEN DoThenFail(each.steps, each.err)
       ELSE Do(each.steps, "addresses")

handleWalletBackup(params) ==
    Do(<<Call("GetSeed", "", "", 0), Call("GetAllAddresses", "", "", 0)>>, "backup")

handleNewTransaction(params) ==
    LET b == mapToObject(params, transactionRequest)
    IN IF ~b.ok THEN Fail(newInvalidParamsError)
       ELSE Do(<<Call("NewTransaction", b.req.Name, "", 0)>>, "success")

handleDeleteTransaction(params) ==
    LET b == mapToObject(params, transactionRequest)
    IN IF ~b.ok THEN Fail(newInvalidParamsError)
       ELSE Do(<<Call("DeleteTransaction", b.req.Name, "", 0)>>, "success")

\* A plausible slip: the input is added empty and its amount set by a second
\* call.
handleAddInputTwoCalls(params) ==
    LET b == mapToObject(params, transactionValueRequest)
    IN IF ~b.ok THEN Fail(newInvalidParamsError)
       ELSE Do(<<Call("AddInput", b.req.Name, b.req.Address, 0),
                 Call("AddInput", b.req.Name, b.req.Address, b.req.Amount)>>,
               "success")

handleAddInput(params) ==
    LET b == mapToObject(params, transactionValueRequest)
    IN IF ~b.ok THEN Fail(newInvalidParamsError)
       ELSE Do(<<Call("AddInput", b.req.Name, b.req.Address, b.req.Amount)>>, "success")

handleAddOutput(params) ==
    LET b == mapToObject(params, transactionValueRequest)
    IN IF ~b.ok THEN Fail(newInvalidParamsError)
       ELSE Do(<<Call("AddOutput", b.req.Name, b.req.Address, b.req.Amount)>>, "success")

handleAddECOutput(params) ==
    LET b == mapToObject(params, transactionValueRequest)
    IN IF ~b.ok THEN Fail(newInvalidParamsError)
       ELSE Do(<<Call("AddECOutput", b.req.Name, b.req.Address, b.req.Amount)>>, "success")

\* A plausible slip: the rate is looked up before the params are bound.
handleAddFeeRateFirst(params, env) ==
    LET b == mapToObject(params, transactionAddressRequest)
    IN IF ~b.ok THEN DoThenFail(<<Call("GetRate", "", "", 0)>>, newInvalidParamsError)
       ELSE Do(<<Call("GetRate", "", "", 0),
                 Call("AddFee", b.req.Name, b.req.Address, env.rate)>>, "success")

handleAddFee(params, env) ==
    LET b == mapToObject(params, transactionAddressRequest)
    IN IF ~b.ok THEN Fail(newInvalidParamsError)
       ELSE Do(<<Call("GetRate", "", "", 0),
                 Call("AddFee", b.req.Name, b.req.Address, env.rate)>>, "success")

handleSubFee(params, env) ==
    LET b == mapToObject(params, transactionAddressRequest)
    IN IF ~b.ok THEN Fail(newInvalidParamsError)
       ELSE Do(<<Call("GetRate", "", "", 0),
                 Call("SubFee", b.req.Name, b.req.Address, env.rate)>>, "success")

handleSignTransaction(params) ==
    LET b == mapToObject(params, transactionRequest)
    IN IF ~b.ok THEN Fail(newInvalidParamsError)
       ELSE Do(<<Call("SignTransaction", b.req.Name, "", 0)>>, "success")

handleComposeTransaction(params) ==
    LET b == mapToObject(params, transactionRequest)
    IN IF ~b.ok THEN Fail(newInvalidParamsError)
       ELSE Do(<<Call("ComposeTransaction", b.req.Name, "", 0)>>, "transaction")

-----------------------------------------------------------------------------
(* handleV2                                                                *)

\* A *factom.JSON2Request.
Request(method, params, id) == [Method |-> method, Params |-> params, ID |-> id]
NoRequest == Request("", JNull, JNull)

\* The methods handleV2Request has a case for.
Methods ==
    {"address", "all-addresses", "generate-ec-address", "generate-factoid-address",
     "import-addresses", "wallet-backup", "new-transaction", "delete-transaction",
     "add-input", "add-output", "add-ec-output", "add-fee", "sub-fee",
     "sign-transaction", "compose-transaction"}

\* The switch of handleV2Request: the handler of j.Method on j.Params.
Dispatch(j, env) ==
    CASE j.Method = "address" -> handleAddress(j.Params)
      [] j.Method = "all-addresses" -> handleAllAddresses(j.Params)
      [] j.Method = "generate-ec-address" -> handleGenerateECAddress(j.Params)
      [] j.Method = "generate-factoid-address" -> handleGenerateFactoidAddress(j.Params)
      [] j.Method = "import-addresses" -> handleImportAddresses(j.Params)
      [] j.Method = "wallet-backup" -> handleWalletBackup(j.Params)
      [] j.Method = "new-transaction" -> handleNewTransaction(j.Params)
      [] j.Method = "delete-transaction" -> handleDeleteTransaction(j.Params)
      [] j.Method = "add-input" -> handleAddInput(j.Params)
      [] j.Method = "add-output" -> handleAddOutput(j.Params)
      [] j.Method = "add-ec-output" -> handleAddECOutput(j.Params)
      [] j.Method = "add-fee" -> handleAddFee(j.Params, env)
      [] j.Method = "sub-fee" -> handleSubFee(j.Params, env)
      [] j.Method = "sign-transaction" -> handleSignTransaction(j.Params)
      [] j.Method = "compose-transaction" -> handleComposeTransaction(j.Params)
      [] OTHER -> Fail(newMethodNotFoundError)

\* A *factom.JSON2Response; NoResponse is nil.
NoResponse == [set |-> FALSE, ID |-> JNull, Result |-> JNull]

\* The end of handleV2Request: (nil, jsonError), or the response with the
\* request's ID and the handler's resp; the wallet and the calls made go along.
Wrap(j, r) ==
    IF r.err # NoError
    THEN [resp |-> NoResponse, err |-> r.err, w |-> r.w, calls |-> r.calls]
    ELSE [resp |-> [set |-> TRUE, ID |-> j.ID, Result |-> r.resp], err |-> NoError,
          w |-> r.w, calls |-> r.calls]

\* handleV2Request(j) on wallet w: what it returns, the wallet afterwards and
\* the calls made.
handleV2Request(j, w, env) == Wrap(j, Run(Dispatch(j, env), w, env))

\* What handleV2 sends: handleV2Error(ctx, j, err) with the request j, if
\* there is one, or ctx.Write of a response.
ErrorSent(hasRequest, j, err) ==
    [kind |-> "error", hasRequest |-> hasRequest, request |-> j, err |-> err,
     resp |-> NoResponse]
ResultSent(resp) ==
    [kind |-> "result", hasRequest |-> FALSE, request |-> NoRequest, err |-> NoError,
     resp |-> resp]

\* A plausible slip: no return after handleV2Error.
AnswerFallThrough(j, r) ==
    IF r.err # NoError THEN <<ErrorSent(TRUE, j, r.err), ResultSent(r.resp)>>
    ELSE <<ResultSent(r.resp)>>

\* A plausible slip: the error is sent without the request.
AnswerNoContext(j, r) ==
    IF r.err # NoError THEN <<ErrorSent(FALSE, NoRequest, r.err)>>
    ELSE <<ResultSent(r.resp)>>

\* The end of handleV2, after handleV2Request returned r.
Answer(j, r) ==
    IF r.err # NoError THEN <<ErrorSent(TRUE, j, r.err)>>
    ELSE <<ResultSent(r.resp)>>

\* handleV2 after handleV2Request returned r: what is sent, the wallet and the
\* calls made.
Sent(j, r) == [out |-> Answer(j, r), w |-> r.w, calls |-> r.calls]

\* A request body: whether it can be read, whether it parses as a JSON-RPC
\* request, and the request it parses to.
Body(readable, parses, j) == [readable |-> readable, parses |-> parses, j |-> j]

\* handleV2 on body b and wallet w: what is sent, the wallet afterwards and the
\* calls made.
handleV2(b, w, env) ==
    IF ~b.readable
    THEN [out |-> <<ErrorSent(FALSE, NoRequest, newInvalidRequestError)>>,
          w |-> w, calls |-> <<>>]
    ELSE IF ~b.parses
    THEN [out |-> <<ErrorSent(FALSE, NoRequest, newInvalidRequestError)>>,
          w |-> w, calls |-> <<>>]
    ELSE Sent(b.j, handleV2Request(b.j, w, env))

-----------------------------------------------------------------------------
(* Serving one request after another                                       *)

\* The wallet Start is given: one Factoid address, no draft.
InitialWallet ==
    [fct |-> {Addr("FA2", "Fs2")}, ec |-> {},
     txs |-> [n \in TxNames |-> NoTx], nfct |-> 0, nec |-> 0, seed |-> "seed"]

\* Params of the wrong JSON type for every request struct.
NotAnObject == {JStr("x"), JArr(<<JStr("t1")>>)}

AddressParams ==
    {JNull, JObj(NoMembers), JObj([addr |-> JStr("x")]), JObj([address |-> JNum(5)])}
        \cup {JObj([address |-> JStr(a)]) : a \in {"FA1", "FA2", "EC1", "Fs1", "x"}}

NameParams ==
    {JNull, JObj(NoMembers), JObj([name |-> JNum(7)]), JObj([nam |-> JStr("t1")]),
     JObj([name |-> JStr("t1")])}

ValueParams ==
    {JObj([name |-> JStr("t1"), address |-> JStr(a), amount |-> JNum(4)]) :
         a \in {"FA1", "EC1"}}
        \cup {JObj([name |-> JStr("t1"), address |-> JStr("FA1"), amount |-> JStr("4")]),
              JObj([name |-> JStr("t1"), address |-> JStr("FA1"), amount |-> JNum(-1)]),
              JObj([name |-> JStr("t2"), address |-> JStr("FA1")])}

FeeParams ==
    {JObj([name |-> JStr("t1"), address |-> JStr("FA1")]),
     JObj([name |-> JStr("t1"), address |-> JNum(5)]),
     JObj([name |-> JStr("t1"), addr |-> JStr("FA1")])}

\* The secrets asked to be imported: of both kinds, and a string that is no
\* address; Fs0, which no key derives from, is asked for in lists of its own.
SecretPool == {"Fs1", "Es1", "x"}

\* The longest list of secrets asked to be imported.
MaxSecrets == 2

ImportList(secrets) ==
    JObj([addresses |-> JArr([i \in 1..Len(secrets) |-> JObj([secret |-> JStr(secrets[i])])])])

ImportParams ==
    {JObj(NoMembers), JObj([addresses |-> JStr("Fs1")]),
     JObj([addresses |-> JArr(<<JNum(5)>>)]),
     JObj([addresses |-> JArr(<<JObj([secret |-> JNum(5)])>>)]),
     JObj([addrs |-> JArr(<<JObj([secret |-> JStr("Fs1")])>>)])}
        \cup {ImportList(l) : l \in SeqsUpTo(SecretPool, MaxSecrets)}
        \cup {ImportList(l) : l \in {<<"Fs0">>, <<"Fs1", "Fs0">>, <<"Fs0", "Fs1">>}}

\* The params tried with a method.
ParamsOf(method) ==
    NotAnObject \cup
    CASE method = "address" -> AddressParams
      [] method = "import-addresses" -> ImportParams
      [] method \in {"new-transaction", "delete-transaction", "sign-transaction",
                     "compose-transaction"} -> NameParams
      [] method \in {"add-input", "add-output", "add-ec-output"} -> ValueParams
      [] method \in {"add-fee", "sub-fee"} -> FeeParams
      [] OTHER -> {JNull, JObj(NoMembers)}

\* Method strings handleV2Request has no case for.
UnknownMethods == {"bogus", ""}

\* The ID of a request: a number, or for a few methods null.
IDPool(method) ==
    IF method \in {"all-addresses", "compose-transaction", "bogus"} THEN {JNum(7), JNull}
    ELSE {JNum(7)}

\* The request of the spec's literal example of parameter validation.
WrongFieldRequest == Request("address", JObj([addr |-> JStr("x")]), JNum(1))

RequestPool ==
    {WrongFieldRequest}
        \cup UNION {{Request(m, p, id) : p \in ParamsOf(m), id \in IDPool(m)} :
                        m \in Methods \cup UnknownMethods}

BodyPool ==
    {Body(FALSE, FALSE, NoRequest), Body(TRUE, FALSE, NoRequest)}
        \cup {Body(TRUE, TRUE, j) : j \in RequestPool}

\* What the world may decide for a request of a method.
EnvsOf(method) ==
    IF method \in {"add-fee", "sub-fee"}
    THEN {Env(TRUE, 0, 0), Env(FALSE, 1, 0)}
    ELSE IF method = "import-addresses"
    THEN {Env(FALSE, 0, k) : k \in 0..MaxSecrets}
    ELSE IF method \in {"address", "all-addresses", "generate-ec-address",
                        "generate-factoid-address", "wallet-backup"}
    THEN {Env(FALSE, 0, k) : k \in 0..2}
    ELSE {Env(FALSE, 0, 0)}

\* The wallet still has addresses to generate.
CanGenerate(w, method) ==
    /\ method = "generate-factoid-address" => w.nfct < MaxGen
    /\ method = "generate-ec-address" => w.nec < MaxGen

InitRPC ==
    /\ wallet = InitialWallet
    /\ busy = FALSE
    /\ body = Body(FALSE, FALSE, NoRequest)
    /\ world = Env(FALSE, 0, 0)
    /\ out = <<>>
    /\ calls = <<>>
    /\ procs = <<>>
    /\ EntryIdle
    /\ ChainIdle

\* handleV2 serves the request of body b, start to finish.
ServeV2(b, env) ==
    /\ ~busy
    /\ CanGenerate(wallet, b.j.Method)
    /\ busy' = TRUE
    /\ body' = b
    /\ world' = env
    /\ \E served \in {handleV2(b, wallet, env)} :
           /\ out' = served.out
           /\ wallet' = served.w
           /\ calls' = served.calls
    /\ UNCHANGED procs
    /\ UNCHANGED entryVars
    /\ UNCHANGED chainVars

\* The exchange of the request served is over.
CloseV2 ==
    /\ busy
    /\ busy' = FALSE
    /\ body' = Body(FALSE, FALSE, NoRequest)
    /\ world' = Env(FALSE, 0, 0)
    /\ out' = <<>>
    /\ calls' = <<>>
    /\ UNCHANGED wallet
    /\ UNCHANGED procs
    /\ UNCHANGED entryVars
    /\ UNCHANGED chainVars

Next ==
    \/ \E b \in BodyPool : \E env \in EnvsOf(b.j.Method) : ServeV2(b, env)
    \/ CloseV2

Spec == InitRPC /\ [][Next]_vars

-----------------------------------------------------------------------------
(* Claims about handleV2                                                   *)

\* A request was parsed and served.
Served == busy /\ body.readable /\ body.parses

\* What was sent is one error of that kind and nothing else.
SentError(code) ==
    /\ Len(out) = 1
    /\ out[1].kind = "error"
    /\ out[1].err.code = code
    /\ ~out[1].resp.set

\* C5: a parsed request of a method that is none of the 15 is answered by a
\* MethodNotFound error sent with the request, and so its id, as context; no
\* result is sent and no call on the wallet is made.
C5_MethodNotFound ==
    (Served /\ body.j.Method \notin Methods) =>
        /\ out = <<ErrorSent(TRUE, body.j, newMethodNotFoundError)>>
        /\ out[1].request.ID = body.j.ID
        /\ calls = <<>>

\* {"method":"bogus","params":{},"id":7} has been answered by MethodNotFound.
C5_Witness ==
    /\ Served
    /\ body.j = Request("bogus", JObj(NoMembers), JNum(7))
    /\ SentError("MethodNotFound")
    /\ out[1].hasRequest
    /\ out[1].request.ID = JNum(7)

\* The methods whose handler binds params, and the JSON fields of the struct
\* each binds them to.
FieldsOf(method) ==
    CASE method = "address" -> addressRequest
      [] method = "import-addresses" -> importRequest
      [] method \in {"new-transaction", "delete-transaction", "sign-transaction",
                     "compose-transaction"} -> transactionRequest
      [] method \in {"add-input", "add-output", "add-ec-output"} ->
             transactionValueRequest
      [] method \in {"add-fee", "sub-fee"} -> transactionAddressRequest
      [] OTHER -> {}

BindingMethods == {m \in Methods : FieldsOf(m) # {}}

\* Params of the shape section 4.1 gives for a method: an object with exactly
\* the fields of the shape, each of its type.
IsSecretList(v) ==
    /\ v.t = "array"
    /\ \A i \in 1..Len(v.a) :
           /\ v.a[i].t = "object"
           /\ DOMAIN v.a[i].o = {"secret"}
           /\ v.a[i].o["secret"].t = "string"

MatchesShape(method, params) ==
    /\ params.t = "object"
    /\ DOMAIN params.o = FieldsOf(method)
    /\ \A f \in DOMAIN params.o :
           CASE f \in {"name", "address"} -> params.o[f].t = "string"
             [] f = "amount" -> params.o[f].t = "number" /\ params.o[f].n >= 0
             [] f = "addresses" -> IsSecretList(params.o[f])
             [] OTHER -> FALSE

\* C6 as the spec states it: params that do not match the shape of a
\* recognized method are answered by InvalidParams, and so is the request
\* {"method":"address","params":{"addr":"x"},"id":1}.
C6_ShapeMismatchIsInvalidParams ==
    (Served /\ body.j.Method \in BindingMethods
        /\ ~MatchesShape(body.j.Method, body.j.Params)) =>
        SentError("InvalidParams")

\* Params that encoding/json does not decode into the struct of a method:
\* neither null nor an object, or an object with a member that has the name of
\* a field and a value that is neither null nor of the field's type.
WrongSecretList(v) ==
    /\ v.t # "null"
    /\ \/ v.t # "array"
       \/ \E i \in 1..Len(v.a) :
              /\ v.a[i].t # "null"
              /\ \/ v.a[i].t # "object"
                 \/ /\ "secret" \in DOMAIN v.a[i].o
                    /\ v.a[i].o["secret"].t \notin {"string", "null"}

Undecodable(method, params) ==
    \/ params.t \notin {"null", "object"}
    \/ /\ params.t = "object"
       /\ \E f \in FieldsOf(method) \cap DOMAIN params.o :
              CASE f \in {"name", "address"} -> params.o[f].t \notin {"string", "null"}
                [] f = "amount" ->
                       /\ params.o[f].t # "null"
                       /\ ~(params.o[f].t = "number" /\ params.o[f].n >= 0)
                [] f = "addresses" -> WrongSecretList(params.o[f])
                [] OTHER -> FALSE

\* C6 as amended: a recognized method that binds params is answered by
\* InvalidParams exactly when the params do not decode into its struct; a
\* member under another name is skipped and a missing one leaves the field
\* zero, so that the request with addr in place of address is answered by the
\* InternalError "Invalid address type".
C6_InvalidParamsIffUndecodable ==
    (Served /\ body.j.Method \in BindingMethods) =>
        /\ SentError("InvalidParams") <=> Undecodable(body.j.Method, body.j.Params)
        /\ body.j = WrongFieldRequest =>
               out = <<ErrorSent(TRUE, body.j,
                                 newCustomInternalError("Invalid address type"))>>

\* The request with addr in place of address has been answered by an
\* InternalError.
C6_Witness ==
    /\ Served
    /\ body.j = WrongFieldRequest
    /\ SentError("InternalError")
    /\ out[1].err.data = "Invalid address type"

\* C7: a request answered by InvalidParams made no call on the wallet and none
\* of GetRate, and left the wallet as it was.
C7_BindBeforeCalls ==
    [][(busy' /\ SentError("InvalidParams")') =>
           (calls' = <<>> /\ wallet' = wallet)]_vars

\* add-fee has been answered by InvalidParams, without a call, on a wallet
\* that holds a draft.
C7_Witness ==
    /\ Served
    /\ body.j.Method = "add-fee"
    /\ SentError("InvalidParams")
    /\ calls = <<>>
    /\ wallet.txs["t1"].live
    /\ wallet.txs["t1"].ins # {}

\* C8: every request ends in exactly one answer.  A body that cannot be read
\* or parsed is answered by InvalidRequest without a request and without a
\* call; any other by a response with a result and the request's ID, or by an
\* error and no response.
C8_ExactlyOneOutcome ==
    busy =>
        /\ Len(out) = 1
        /\ (~body.readable \/ ~body.parses) =>
               /\ out = <<ErrorSent(FALSE, NoRequest, newInvalidRequestError)>>
               /\ calls = <<>>
        /\ (body.readable /\ body.parses) =>
               \/ /\ out[1].kind = "result"
                  /\ out[1].err = NoError
                  /\ out[1].resp.set
                  /\ out[1].resp.ID = body.j.ID
               \/ /\ out[1].kind = "error"
                  /\ out[1].err # NoError
                  /\ ~out[1].resp.set

\* compose-transaction has been answered by a result under the ID null.
C8_Witness ==
    /\ Served
    /\ body.j.Method = "compose-transaction"
    /\ body.j.ID = JNull
    /\ Len(out) = 1
    /\ out[1].kind = "result"
    /\ out[1].resp.Result.t = "object"

-----------------------------------------------------------------------------
(* Claims about import-addresses                                           *)

\* The secrets of params that decode into an importRequest, in order.
SecretsOf(params) ==
    IF params.t = "null" THEN <<>>
    ELSE IF "addresses" \notin DOMAIN params.o THEN <<>>
    ELSE IF params.o["addresses"].t = "null" THEN <<>>
    ELSE LET list == params.o["addresses"].a
         IN [i \in 1..Len(list) |->
                IF list[i].t = "object" /\ "secret" \in DOMAIN list[i].o
                       /\ list[i].o["secret"].t = "string"
                THEN list[i].o["secret"].s
                ELSE ""]

\* A secret string of one of the two kinds that a key can be derived from.
Importable(sec) ==
    /\ AddressStringType(sec) \in {"FactoidSec", "ECSec"}
    /\ PubOf(sec) # ""

\* The wallet stores the address of the secret, in the store of its kind.
InStore(w, sec) ==
    IF AddressStringType(sec) = "FactoidSec" THEN Addr(PubOf(sec), sec) \in w.fct
    ELSE Addr(PubOf(sec), sec) \in w.ec

\* The first element that fails, because it cannot be imported or because the
\* store fails to take it; 0 when none does.
StopAt(secs, failAt) ==
    LET failing == {i \in 1..Len(secs) : ~Importable(secs[i]) \/ failAt = i}
    IN IF failing = {} THEN 0
       ELSE CHOOSE i \in failing : \A j \in failing : i <= j

\* The addresses a result lists.
Listed(result) ==
    IF result.t # "object" \/ "addresses" \notin DOMAIN result.o THEN <<>>
    ELSE IF result.o["addresses"].t = "null" THEN <<>>
    ELSE result.o["addresses"].a

\* C10: import-addresses takes the secrets in order and stops at the first
\* that fails: the answer is an InternalError and no result, the earlier
\* secrets stay stored, and no later one is put.  When none fails the result
\* lists the address of each secret in the order given, all of them stored.
C10_ImportStopsAtFirstFailure ==
    (Served /\ body.j.Method = "import-addresses"
        /\ ~Undecodable("import-addresses", body.j.Params)) =>
        LET secs == SecretsOf(body.j.Params)
            stop == StopAt(secs, world.failAt)
        IN IF stop = 0
           THEN /\ Len(out) = 1
                /\ out[1].kind = "result"
                /\ Listed(out[1].resp.Result) =
                       [i \in 1..Len(secs) |->
                           mkAddressResponse(Addr(PubOf(secs[i]), secs[i]))]
                /\ \A i \in 1..Len(secs) : InStore(wallet, secs[i])
                /\ Len(calls) = Len(secs)
           ELSE /\ SentError("InternalError")
                /\ \A i \in 1..(stop - 1) : InStore(wallet, secs[i])
                /\ Len(calls) = IF Importable(secs[stop]) THEN stop ELSE stop - 1

\* An import of a Factoid secret and then of a string that is no secret has
\* ended in an InternalError with the first address stored.
C10_Witness ==
    /\ Served
    /\ body.j.Method = "import-addresses"
    /\ SecretsOf(body.j.Params) = <<"Fs1", "x">>
    /\ SentError("InternalError")
    /\ Addr("FA1", "Fs1") \in wallet.fct
    /\ Len(calls) = 1

-----------------------------------------------------------------------------
(* Serving requests at the same time                                       *)

\* The web server runs handleV2 once per request, each run on its own; the
\* runs share fctWallet.  A call on the wallet takes effect at once (section
\* 5); between its calls a run can be overtaken by the others.

\* The requests served at the same time.
NumProcs == 2

Procs == 1..NumProcs

\* The wallet the runs share: two Factoid addresses, a draft t1 that pays 4
\* from FA2 to FA1, and an empty draft t2.
SharedWallet ==
    [fct |-> {Addr("FA1", "Fs1"), Addr("FA2", "Fs2")}, ec |-> {},
     txs |-> [n \in TxNames |->
                 IF n = "t1"
                 THEN [NewTx EXCEPT !.ins = {[a |-> "FA2", v |-> 4]},
                                    !.outs = {[a |-> "FA1", v |-> 4]}]
                 ELSE NewTx],
     nfct |-> 0, nec |-> 0, seed |-> "seed"]

NameOnly(name) == JObj([name |-> JStr(name)])
NameAddress(name, address) == JObj([name |-> JStr(name), address |-> JStr(address)])
NameAddressAmount(name, address, amount) ==
    JObj([name |-> JStr(name), address |-> JStr(address), amount |-> JNum(amount)])

\* The requests that change a draft, on both names.
MutatingRequests ==
    {Request("add-input", NameAddressAmount("t1", "FA2", 6), JNum(7)),
     Request("add-input", NameAddressAmount("t2", "FA2", 6), JNum(7)),
     Request("add-input", JObj([name |-> JNum(1)]), JNum(7)),
     Request("add-output", NameAddressAmount("t1", "FA1", 6), JNum(7)),
     Request("add-output", NameAddressAmount("t2", "FA1", 6), JNum(7)),
     Request("add-ec-output", NameAddressAmount("t1", "EC1", 2), JNum(7)),
     Request("add-fee", NameAddress("t1", "FA2"), JNum(7)),
     Request("sub-fee", NameAddress("t1", "FA1"), JNum(7)),
     Request("sign-transaction", NameOnly("t1"), JNum(7)),
     Request("sign-transaction", NameOnly("t2"), JNum(7)),
     Request("compose-transaction", NameOnly("t1"), JNum(7)),
     Request("delete-transaction", NameOnly("t1"), JNum(7))}

\* A run of handleV2: where it is, its request, what the world decides for
\* it, the calls it has made, what they returned, the error of the last one,
\* and what it sent.
IdleProc ==
    [at |-> "idle", j |-> NoRequest, env |-> Env(FALSE, 0, 0), k |-> 0, rets |-> <<>>,
     err |-> "", sent |-> <<>>]

\* What a handler keeps of what a call returned.
Kept(r) == [err |-> r.err, addrs |-> r.addrs, text |-> r.text, tx |-> r.tx]

InitConc ==
    /\ wallet = SharedWallet
    /\ procs = [p \in Procs |-> IdleProc]
    /\ busy = FALSE
    /\ body = Body(FALSE, FALSE, NoRequest)
    /\ world = Env(FALSE, 0, 0)
    /\ out = <<>>
    /\ calls = <<>>
    /\ EntryIdle
    /\ ChainIdle

seqVars == <<busy, body, world, out, calls>>

\* handleV2 reads and parses the body of a request, up to the handler.
AcceptV2(p, j, env) ==
    /\ procs[p].at = "idle"
    /\ procs' = [procs EXCEPT ![p] = [IdleProc EXCEPT !.at = "running", !.j = j,
                                                       !.env = env]]
    /\ UNCHANGED wallet
    /\ UNCHANGED seqVars
    /\ UNCHANGED entryVars
    /\ UNCHANGED chainVars

\* The handler makes its next call.
CallV2(p) ==
    LET me == procs[p]
        script == Dispatch(me.j, me.env)
    IN /\ me.at = "running"
       /\ me.err = ""
       /\ me.k < Len(script.steps)
       /\ LET r == Invoke(wallet, script.steps[me.k + 1], me.env, me.k + 1)
          IN /\ wallet' = r.w
             /\ procs' = [procs EXCEPT ![p].k = me.k + 1,
                                       ![p].err = r.err,
                                       ![p].rets = IF r.err = "" THEN Append(@, Kept(r))
                                                   ELSE @]
       /\ UNCHANGED seqVars
       /\ UNCHANGED entryVars
       /\ UNCHANGED chainVars

\* The handler returns, and handleV2 sends the answer.
AnswerV2(p) ==
    LET me == procs[p]
        script == Dispatch(me.j, me.env)
        r == IF me.err # "" THEN [err |-> newCustomInternalError(me.err), resp |-> JNull]
             ELSE Conclude(script, me.rets)
    IN /\ me.at = "running"
       /\ me.err # "" \/ me.k = Len(script.steps)
       /\ procs' = [procs EXCEPT
               ![p].at = "answered",
               ![p].sent = Answer(me.j, Wrap(me.j, Ended(r, wallet,
                                                         SubSeq(script.steps, 1, me.k))))]
       /\ UNCHANGED wallet
       /\ UNCHANGED seqVars
       /\ UNCHANGED entryVars
       /\ UNCHANGED chainVars

NextConc ==
    \/ \E p \in Procs : \E j \in MutatingRequests : \E env \in EnvsOf(j.Method) :
           AcceptV2(p, j, env)
    \/ \E p \in Procs : CallV2(p)
    \/ \E p \in Procs : AnswerV2(p)

SpecConc == InitConc /\ [][NextConc]_vars

\* The draft a request names, "" when its params name none.
NameOf(j) ==
    IF j.Params.t = "object" /\ "name" \in DOMAIN j.Params.o
           /\ j.Params.o["name"].t = "string"
    THEN j.Params.o["name"].s
    ELSE ""

\* The wallet after the requests of the runs in order are served one after
\* the other, each start to finish, from wallet w.
RECURSIVE OneByOne(_, _)
OneByOne(w, order) ==
    IF order = <<>> THEN w
    ELSE OneByOne(handleV2(Body(TRUE, TRUE, procs[Head(order)].j), w,
                           procs[Head(order)].env).w,
                  Tail(order))

\* The orders of some of the runs S, each at most once.
Orders(S) ==
    {o \in SeqsUpTo(S, Cardinality(S)) : \A i, k \in 1..Len(o) : i # k => o[i] # o[k]}

Range(o) == {o[i] : i \in 1..Len(o)}

=============================================================================
